---------------------------- MODULE Spec2Model ----------------------------
(***************************************************************************)
(* The LRU cache of typescript-lru-cache (src/src/LRUCache.ts, the class   *)
(* that starts at line 244, and src/src/LRUCacheNode.ts): a Map from key   *)
(* to node (lookupTable) plus a doubly linked list of the same nodes       *)
(* (head = most recently used, tail = least recently used).                *)
(*                                                                         *)
(* The heap of LRUCacheNode objects is the function `nodes` from object    *)
(* identities to the objects' fields; next and prev hold identities.       *)
(* Date.now() is the variable `now`, advanced by Tick.  The callbacks      *)
(* onEntryEvicted and onEntryMarkedAsMostRecentlyUsed are loggers: each    *)
(* invocation appends what it was called with to `events`, which holds the *)
(* invocations made by the operation that ran last.  `last` records that   *)
(* operation, its arguments and what it returned.                          *)
(***************************************************************************)
EXTENDS Integers, Sequences, FiniteSets, TLC

VARIABLES
    nodes,                    \* heap: node identity -> LRUCacheNode fields
    lookupTable,              \* LRUCache.lookupTable: key -> node identity
    head,                     \* LRUCache.head: node identity or NULL
    tail,                     \* LRUCache.tail: node identity or NULL
    maxSizeInternal,          \* LRUCache.maxSizeInternal
    entryExpirationTimeInMS,  \* LRUCache.entryExpirationTimeInMS (cache default)
    now,                      \* Date.now()
    events,                   \* callback invocations of the last operation
    last,                     \* the last operation: [op, arg, ret, threw, at]
    clone,                    \* LRUCache.clone (cache default)
    cloneFn,                  \* LRUCache.cloneFn (cache default)
    iterators,                \* the generator objects the caller holds
    alone,                    \* the cache as it would be with one iterator only
    seen                      \* what the cache was at each callback of the last operation

vars == <<nodes, lookupTable, head, tail, maxSizeInternal,
          entryExpirationTimeInMS, now, events, last, clone, cloneFn,
          iterators, alone, seen>>

---------------------------------------------------------------------------
(* Bounds and input sets.                                                  *)

\* The largest maxSize the constructor or the maxSize setter is given.
MaxCapacity == 3

\* The clock never passes MaxTime.
MaxTime == 2

\* The amounts of time that pass between two operations.
TimeSteps == {2}

\* null: for a node reference, a value, a key or a duration.
NULL == -1

Keys == {1, 2, 3}

Values == {10, 20}

\* Identities for node objects: one for each key and a spare one (see
\* NewNodeId).
NodeIds == Keys \cup {0}

\* NaN.  Every comparison with NaN is false in the source; the number that
\* stands for it is above every other number of the model, so that
\* `NaN <= 0` is false here too and only Number.isNaN tells it apart.
NaN == 99

\* Number.isNaN
IsNaN(x) == x = NaN

\* maxSize values: valid ones, and 0 (rejected).
MaxSizes == 0..MaxCapacity

\* The cache-level default expiration the constructor is given.
DefaultExpirations == {NULL, 1}

\* A callback option that is undefined.
NoCallback == "none"

\* The cache-level callbacks.
CacheOnEntryEvicted == "cache"

CacheOnEntryMarkedAsMostRecentlyUsed == "cache"

\* The options objects passed to set (LRUCacheSetEntryOptions): a record
\* holds the properties that are present.
NoOptions == [x \in {} |-> NULL]

SetOptions == {NoOptions, [entryExpirationTimeInMS |-> 0]}

\* The values and options of the calls that mix entries that expire with
\* entries that never do.
ExpiryValues == {10}

ExpiryOptions == {NoOptions, [entryExpirationTimeInMS |-> NULL]}

\* The options of the calls that give some entries callbacks of their own.
EntryOnEntryEvicted == "entryOnEntryEvicted"

EntryOnEntryMarkedAsMostRecentlyUsed == "entryOnEntryMarkedAsMostRecentlyUsed"

CallbackOptions ==
    {NoOptions,
     [onEntryEvicted |-> EntryOnEntryEvicted,
      onEntryMarkedAsMostRecentlyUsed |-> EntryOnEntryMarkedAsMostRecentlyUsed]}

\* The options of the calls that give set every kind of per-entry duration:
\* none, null, a valid one, 0 and NaN.
AnyOptions ==
    {NoOptions,
     [entryExpirationTimeInMS |-> NULL],
     [entryExpirationTimeInMS |-> 3],
     [entryExpirationTimeInMS |-> 0],
     [entryExpirationTimeInMS |-> NaN]}

\* The clone function of the cache and the one passed to set.
CacheCloneFn == "cache"

EntryCloneFn == "entry"

\* The options of the calls that give some entries a clone policy of their
\* own: another clone function, or no cloning.
CloneOptions == {NoOptions, [cloneFn |-> EntryCloneFn], [clone |-> FALSE]}

\* maxSize values with the invalid ones: 0 and NaN.
AnyMaxSizes == MaxSizes \cup {NaN}

\* The options objects passed to the constructor (LRUCacheOptions), valid
\* and invalid.
ConstructorOptions ==
    [maxSize : AnyMaxSizes, entryExpirationTimeInMS : {NULL, 1, 0, NaN}]

\* The conditions passed to find: on the key, on the value, or never true.
Conditions ==
    [kind : {"key"}, x : Keys] \cup [kind : {"value"}, x : Values]
        \cup {[kind |-> "never", x |-> NULL]}

---------------------------------------------------------------------------
(* The cache object as a record, so that the methods compose.              *)

This ==
    [nodes |-> nodes, lookupTable |-> lookupTable, head |-> head, tail |-> tail,
     maxSizeInternal |-> maxSizeInternal, events |-> << >>, seen |-> << >>]

\* Mutant of size: the entries whose age exceeds their duration are not
\* counted.
sizeOfLive(c) ==
    Cardinality({k \in DOMAIN c.lookupTable :
                    LET n == c.nodes[c.lookupTable[k]] IN
                    ~(n.entryExpirationTimeInMS # NULL
                          /\ now - n.created > n.entryExpirationTimeInMS)})

\* get size(): lookupTable.size
size(c) == Cardinality(DOMAIN c.lookupTable)

\* get remainingSize()
remainingSize(c) == c.maxSizeInternal - size(c)

\* Mutant of isExpired: no node ever counts as expired.
isNeverExpired(n) == FALSE

\* isExpired with a threshold that is not strict: the entry is expired as soon
\* as its age reaches its duration.
isExpiredAtThreshold(n) ==
    n.entryExpirationTimeInMS # NULL /\ now - n.created >= n.entryExpirationTimeInMS

\* LRUCacheNode.isExpired
isExpired(n) ==
    n.entryExpirationTimeInMS # NULL /\ now - n.created > n.entryExpirationTimeInMS

\* LRUCache.mapNodeToEntry
mapNodeToEntry(n) == [key |-> n.key, value |-> n.value]

\* The entry-typed null that newest, oldest and find return.
NullEntry == [key |-> NULL, value |-> NULL]

\* The keys of the nodes reached from node `id` via next, at most `fuel`
\* of them.
RECURSIVE KeysFrom(_, _, _)
KeysFrom(c, id, fuel) ==
    IF id = NULL \/ fuel = 0 THEN {}
    ELSE {c.nodes[id].key} \cup KeysFrom(c, c.nodes[id].next, fuel - 1)

\* What a callback that reads the cache finds when it is invoked: whether
\* the keys of the index are the keys of the list, and whether size is
\* within maxSize.
Observed(c) ==
    [coherent |-> DOMAIN c.lookupTable
                      = KeysFrom(c, c.head, Cardinality(DOMAIN c.nodes)),
     within |-> size(c) <= c.maxSizeInternal]

\* Mutant of invokeOnEvicted: isExpired is always reported false.
invokeOnEvictedAsLive(c, id) ==
    LET n == c.nodes[id] IN
    IF n.onEntryEvicted # NoCallback
    THEN [c EXCEPT !.events = Append(@,
            [type |-> "evicted", fn |-> n.onEntryEvicted, key |-> n.key,
             value |-> n.value, isExpired |-> FALSE])]
    ELSE c

\* LRUCacheNode.invokeOnEvicted
invokeOnEvicted(c, id) ==
    LET n == c.nodes[id] IN
    IF n.onEntryEvicted # NoCallback
    THEN [c EXCEPT !.events = Append(@,
            [type |-> "evicted", fn |-> n.onEntryEvicted, key |-> n.key,
             value |-> n.value, isExpired |-> isExpired(n)]),
                   !.seen = Append(@, Observed(c))]
    ELSE c

\* Mutant of invokeOnEntryMarkedAsMostRecentlyUsed: the callback of the cache
\* is invoked, whatever callback the node holds.
invokeCacheOnEntryMarkedAsMostRecentlyUsed(c, id) ==
    LET n == c.nodes[id] IN
    [c EXCEPT !.events = Append(@,
        [type |-> "mru", fn |-> CacheOnEntryMarkedAsMostRecentlyUsed,
         key |-> n.key, value |-> n.value, isExpired |-> FALSE])]

\* LRUCacheNode.invokeOnEntryMarkedAsMostRecentlyUsed
invokeOnEntryMarkedAsMostRecentlyUsed(c, id) ==
    LET n == c.nodes[id] IN
    IF n.onEntryMarkedAsMostRecentlyUsed # NoCallback
    THEN [c EXCEPT !.events = Append(@,
            [type |-> "mru", fn |-> n.onEntryMarkedAsMostRecentlyUsed,
             key |-> n.key, value |-> n.value, isExpired |-> FALSE]),
                   !.seen = Append(@, Observed(c))]
    ELSE c

\* Mutant of removeNodeFromList: node.prev.next is not redirected.
removeNodeFromListKeepingPrevLink(c, id) ==
    LET c2 == IF c.nodes[id].next # NULL
              THEN [c EXCEPT !.nodes[c.nodes[id].next].prev = c.nodes[id].prev]
              ELSE c
        c3 == IF c2.head = id THEN [c2 EXCEPT !.head = c2.nodes[id].next] ELSE c2
        c4 == IF c3.tail = id THEN [c3 EXCEPT !.tail = c3.nodes[id].prev] ELSE c3
    IN  [c4 EXCEPT !.nodes[id].next = NULL, !.nodes[id].prev = NULL]

\* Mutant of removeNodeFromList: node.next.prev is not redirected.
removeNodeFromListKeepingNextLink(c, id) ==
    LET c1 == IF c.nodes[id].prev # NULL
              THEN [c EXCEPT !.nodes[c.nodes[id].prev].next = c.nodes[id].next]
              ELSE c
        c3 == IF c1.head = id THEN [c1 EXCEPT !.head = c1.nodes[id].next] ELSE c1
        c4 == IF c3.tail = id THEN [c3 EXCEPT !.tail = c3.nodes[id].prev] ELSE c3
    IN  [c4 EXCEPT !.nodes[id].next = NULL, !.nodes[id].prev = NULL]

\* LRUCache.removeNodeFromList: the assignments in the order of the code.
removeNodeFromList(c, id) ==
    LET c1 == IF c.nodes[id].prev # NULL
              THEN [c EXCEPT !.nodes[c.nodes[id].prev].next = c.nodes[id].next]
              ELSE c
        c2 == IF c1.nodes[id].next # NULL
              THEN [c1 EXCEPT !.nodes[c1.nodes[id].next].prev = c1.nodes[id].prev]
              ELSE c1
        c3 == IF c2.head = id THEN [c2 EXCEPT !.head = c2.nodes[id].next] ELSE c2
        c4 == IF c3.tail = id THEN [c3 EXCEPT !.tail = c3.nodes[id].prev] ELSE c3
    IN  [c4 EXCEPT !.nodes[id].next = NULL, !.nodes[id].prev = NULL]

\* Mutant of setNodeAsHead: with a non-empty list, head is not reassigned.
setNodeBeforeHead(c, id) ==
    LET c1 == removeNodeFromList(c, id)
        c2 == IF c1.head = NULL
              THEN [c1 EXCEPT !.head = id, !.tail = id]
              ELSE [c1 EXCEPT !.nodes[id].next = c1.head,
                              !.nodes[c1.head].prev = id]
    IN  invokeOnEntryMarkedAsMostRecentlyUsed(c2, id)

\* Mutant of setNodeAsHead: the callback is not invoked for a node that is
\* head already.
setNodeAsHeadSilentlyWhenHead(c, id) ==
    LET c1 == removeNodeFromList(c, id)
        c2 == IF c1.head = NULL
              THEN [c1 EXCEPT !.head = id, !.tail = id]
              ELSE [c1 EXCEPT !.nodes[id].next = c1.head,
                              !.nodes[c1.head].prev = id,
                              !.head = id]
    IN  IF c.head = id THEN c2 ELSE invokeOnEntryMarkedAsMostRecentlyUsed(c2, id)

\* LRUCache.setNodeAsHead
setNodeAsHead(c, id) ==
    LET c1 == removeNodeFromList(c, id)
        c2 == IF c1.head = NULL
              THEN [c1 EXCEPT !.head = id, !.tail = id]
              ELSE [c1 EXCEPT !.nodes[id].next = c1.head,
                              !.nodes[c1.head].prev = id,
                              !.head = id]
    IN  invokeOnEntryMarkedAsMostRecentlyUsed(c2, id)

\* Map.delete
MapDelete(m, k) == [x \in DOMAIN m \ {k} |-> m[x]]

\* Map.set
MapSet(m, k, v) == [x \in DOMAIN m \cup {k} |-> IF x = k THEN v ELSE m[x]]

\* Mutant of removeNodeFromListAndLookupTable: the key stays in lookupTable.
removeNodeFromListOnly(c, id) == removeNodeFromList(invokeOnEvicted(c, id), id)

\* Mutant of removeNodeFromListAndLookupTable: the eviction callback is not
\* invoked.
removeNodeFromListAndLookupTableSilently(c, id) ==
    LET c2 == removeNodeFromList(c, id)
    IN  [c2 EXCEPT !.lookupTable = MapDelete(@, c2.nodes[id].key)]

\* LRUCache.removeNodeFromListAndLookupTable
removeNodeFromListAndLookupTable(c, id) ==
    LET c1 == invokeOnEvicted(c, id)
        c2 == removeNodeFromList(c1, id)
    IN  [c2 EXCEPT !.lookupTable = MapDelete(@, c2.nodes[id].key)]

\* LRUCache.enforceSizeLimit: the loop from `node` on.
RECURSIVE enforceSizeLimitFrom(_, _)
enforceSizeLimitFrom(c, node) ==
    IF node # NULL /\ size(c) > c.maxSizeInternal
    THEN LET prev == c.nodes[node].prev
         IN  enforceSizeLimitFrom(removeNodeFromListAndLookupTable(c, node), prev)
    ELSE c

\* Mutant of enforceSizeLimit: nothing is evicted.
enforceNoSizeLimit(c) == c

\* Mutant of enforceSizeLimit: the walk starts at head instead of tail.
enforceSizeLimitAtHead(c) == enforceSizeLimitFrom(c, c.head)

\* Mutant of enforceSizeLimit: an expired entry, when there is one, is
\* removed before the tail is looked at.
enforceSizeLimitSparingLive(c) ==
    LET expired == {id \in {c.lookupTable[k] : k \in DOMAIN c.lookupTable} :
                       isExpired(c.nodes[id])}
    IN  IF size(c) > c.maxSizeInternal /\ expired # {}
        THEN LET c1 == removeNodeFromListAndLookupTable(c, CHOOSE id \in expired : TRUE)
             IN  enforceSizeLimitFrom(c1, c1.tail)
        ELSE enforceSizeLimitFrom(c, c.tail)

enforceSizeLimit(c) == enforceSizeLimitFrom(c, c.tail)

\* The node objects still referenced from the cache: the rest is garbage.
RECURSIVE Referenced(_, _)
Referenced(c, S) ==
    LET T == (S \cup {c.nodes[i].next : i \in S} \cup {c.nodes[i].prev : i \in S})
                 \ {NULL}
    IN  IF T = S THEN S ELSE Referenced(c, T)

Roots(c) == ({c.head, c.tail} \cup {c.lookupTable[k] : k \in DOMAIN c.lookupTable}) \ {NULL}

\* The node objects the generators the caller holds are suspended at: the
\* local variable `node` of each keeps its object alive.
Suspended(its) == {its[i].node : i \in DOMAIN its} \ {NULL}

\* new LRUCacheNode(key, ...): the identity of the new object.  Identities
\* cannot be observed by the program, so the allocator is free to choose: it
\* takes the identity numbered like the key when no object still referenced
\* has it, and the smallest free identity otherwise.
NewNodeId(c, key) ==
    LET used == Referenced(c, Roots(c) \cup Suspended(iterators))
    IN  IF key \notin used THEN key
        ELSE CHOOSE i \in NodeIds \ used : \A j \in NodeIds \ used : i <= j

\* The LRUCacheNode constructor throws on a numeric duration <= 0 (or NaN).
NodeConstructorThrows(options) ==
    /\ options.entryExpirationTimeInMS # NULL
    /\ (options.entryExpirationTimeInMS <= 0 \/ IsNaN(options.entryExpirationTimeInMS))

\* The LRUCacheNode constructor: the fields of the new object.
LRUCacheNode(key, value, options) ==
    [key |-> key, value |-> value, created |-> now,
     entryExpirationTimeInMS |-> options.entryExpirationTimeInMS,
     next |-> NULL, prev |-> NULL,
     onEntryEvicted |-> options.onEntryEvicted,
     onEntryMarkedAsMostRecentlyUsed |-> options.onEntryMarkedAsMostRecentlyUsed]

\* Mutant of NodeOptions: the cache-level defaults are spread over the
\* properties of entryOptions.
NodeOptionsDefaultsLast(entryOptions) ==
    [entryExpirationTimeInMS |-> entryExpirationTimeInMS,
     onEntryEvicted |-> CacheOnEntryEvicted,
     onEntryMarkedAsMostRecentlyUsed |-> CacheOnEntryMarkedAsMostRecentlyUsed,
     clone |-> clone,
     cloneFn |-> cloneFn]
    @@ entryOptions

\* The options set hands to the node constructor: the cache-level defaults
\* with the properties of entryOptions spread over them.
NodeOptions(entryOptions) ==
    entryOptions @@
    [entryExpirationTimeInMS |-> entryExpirationTimeInMS,
     onEntryEvicted |-> CacheOnEntryEvicted,
     onEntryMarkedAsMostRecentlyUsed |-> CacheOnEntryMarkedAsMostRecentlyUsed,
     clone |-> clone,
     cloneFn |-> cloneFn]

\* The clone policy of a node (the node class that takes the options clone
\* and cloneFn): the node keeps whether to clone and the function to clone
\* with, which is a structural copy when the options give none.
DefaultCloneFn == "default"

CloningNode(key, value, options) ==
    LRUCacheNode(key, value, options) @@
    [clone |-> options.clone,
     cloneFn |-> IF options.cloneFn = NoCallback THEN DefaultCloneFn
                 ELSE options.cloneFn]

\* A value passes through the clone function of its node, when the node
\* clones: on construction (the node stores a copy) and whenever get, peek,
\* forEach or a generator hands the value out (the caller gets a copy).  The
\* copy of a value is a value equal to it.
invokeCloneFn(c, id) ==
    LET n == c.nodes[id] IN
    IF n.clone
    THEN [c EXCEPT !.events = Append(@,
            [type |-> "clone", fn |-> n.cloneFn, key |-> n.key,
             value |-> n.value, isExpired |-> FALSE])]
    ELSE c

Returned(c, ret) == [c |-> c, ret |-> ret, threw |-> FALSE]

Thrown(c) == [c |-> c, ret |-> NULL, threw |-> TRUE]

\* Mutant of set: the node the key already has is not removed first.
setKeepingCurrentNode(c, key, value, entryOptions) ==
    LET options == NodeOptions(entryOptions)
        id == NewNodeId(c, key)
        c2 == invokeCloneFn(
                  [c EXCEPT !.nodes = MapSet(@, id, CloningNode(key, value, options))],
                  id)
        c3 == setNodeAsHead(c2, id)
        c4 == [c3 EXCEPT !.lookupTable = MapSet(@, key, id)]
    IN  IF NodeConstructorThrows(options)
        THEN Thrown(c)
        ELSE Returned(enforceSizeLimit(c4), NULL)

\* Mutant of set: room is made for the new node before it becomes head.
setEnforcingSizeLimitFirst(c, key, value, entryOptions) ==
    LET c1 == IF key \in DOMAIN c.lookupTable
              THEN removeNodeFromListAndLookupTable(c, c.lookupTable[key])
              ELSE c
        c2 == IF c1.tail # NULL /\ size(c1) >= c1.maxSizeInternal
              THEN removeNodeFromListAndLookupTable(c1, c1.tail)
              ELSE c1
        options == NodeOptions(entryOptions)
        id == NewNodeId(c2, key)
        c3 == invokeCloneFn(
                  [c2 EXCEPT !.nodes = MapSet(@, id, CloningNode(key, value, options))],
                  id)
        c4 == setNodeAsHead(c3, id)
        c5 == [c4 EXCEPT !.lookupTable = MapSet(@, key, id)]
    IN  IF NodeConstructorThrows(options)
        THEN Thrown(c1)
        ELSE Returned(enforceSizeLimit(c5), NULL)

\* Mutant of set: the node the key already has is given the new value and
\* made head; its creation time and its duration stay.
setRevivingCurrentNode(c, key, value, entryOptions) ==
    IF key \in DOMAIN c.lookupTable /\ ~NodeConstructorThrows(NodeOptions(entryOptions))
    THEN Returned(setNodeAsHead([c EXCEPT !.nodes[c.lookupTable[key]].value = value],
                                c.lookupTable[key]),
                  NULL)
    ELSE setKeepingCurrentNode(c, key, value, entryOptions)

\* LRUCache.set
set(c, key, value, entryOptions) ==
    LET c1 == IF key \in DOMAIN c.lookupTable
              THEN removeNodeFromListAndLookupTable(c, c.lookupTable[key])
              ELSE c
        options == NodeOptions(entryOptions)
        id == NewNodeId(c1, key)
        c2 == invokeCloneFn(
                  [c1 EXCEPT !.nodes = MapSet(@, id, CloningNode(key, value, options))],
                  id)
        c3 == setNodeAsHead(c2, id)
        c4 == [c3 EXCEPT !.lookupTable = MapSet(@, key, id)]
    IN  IF NodeConstructorThrows(options)
        THEN Thrown(c1)
        ELSE Returned(enforceSizeLimit(c4), NULL)

\* Mutant of get: a live entry is returned without being made head.
getWithoutPromotion(c, key) ==
    IF key \notin DOMAIN c.lookupTable
    THEN Returned(c, NULL)
    ELSE LET node == c.lookupTable[key] IN
         IF isExpired(c.nodes[node])
         THEN Returned(removeNodeFromListAndLookupTable(c, node), NULL)
         ELSE Returned(invokeCloneFn(c, node), c.nodes[node].value)

\* Mutant of get: the access restarts the lifetime of the entry.
getRefreshingCreated(c, key) ==
    IF key \notin DOMAIN c.lookupTable
    THEN Returned(c, NULL)
    ELSE LET node == c.lookupTable[key] IN
         IF isExpired(c.nodes[node])
         THEN Returned(removeNodeFromListAndLookupTable(c, node), NULL)
         ELSE Returned(invokeCloneFn(
                           setNodeAsHead([c EXCEPT !.nodes[node].created = now], node),
                           node),
                       c.nodes[node].value)

\* LRUCache.get
get(c, key) ==
    IF key \notin DOMAIN c.lookupTable
    THEN Returned(c, NULL)
    ELSE LET node == c.lookupTable[key] IN
         IF isExpired(c.nodes[node])
         THEN Returned(removeNodeFromListAndLookupTable(c, node), NULL)
         ELSE Returned(invokeCloneFn(setNodeAsHead(c, node), node),
                       c.nodes[node].value)

\* Mutant of peek: a live entry is made head, as get does.
peekWithPromotion(c, key) == get(c, key)

\* Mutant of peek: the most-recently-used callback of a live entry is
\* invoked.
peekInvokingMostRecentlyUsed(c, key) ==
    IF key \notin DOMAIN c.lookupTable
    THEN Returned(c, NULL)
    ELSE LET node == c.lookupTable[key] IN
         IF isExpired(c.nodes[node])
         THEN Returned(removeNodeFromListAndLookupTable(c, node), NULL)
         ELSE Returned(invokeCloneFn(
                           invokeOnEntryMarkedAsMostRecentlyUsed(c, node), node),
                       c.nodes[node].value)

\* LRUCache.peek
peek(c, key) ==
    IF key \notin DOMAIN c.lookupTable
    THEN Returned(c, NULL)
    ELSE LET node == c.lookupTable[key] IN
         IF isExpired(c.nodes[node])
         THEN Returned(removeNodeFromListAndLookupTable(c, node), NULL)
         ELSE Returned(invokeCloneFn(c, node), c.nodes[node].value)

\* Mutant of delete: the key leaves lookupTable, the node stays in the list.
deleteFromLookupTableOnly(c, key) ==
    IF key \notin DOMAIN c.lookupTable
    THEN Returned(c, FALSE)
    ELSE Returned([c EXCEPT !.lookupTable = MapDelete(@, key)], TRUE)

\* LRUCache.delete
delete(c, key) ==
    IF key \notin DOMAIN c.lookupTable
    THEN Returned(c, FALSE)
    ELSE Returned(removeNodeFromListAndLookupTable(c, c.lookupTable[key]), TRUE)

\* Mutant of has: an expired entry is reported absent.
hasUnexpired(c, key) ==
    Returned(c, key \in DOMAIN c.lookupTable
                /\ ~isExpired(c.nodes[c.lookupTable[key]]))

\* LRUCache.has
has(c, key) == Returned(c, key \in DOMAIN c.lookupTable)

\* Mutant of clear: tail is not reset.
clearKeepingTail(c) ==
    Returned([c EXCEPT !.head = NULL, !.lookupTable = [x \in {} |-> NULL]], NULL)

\* LRUCache.clear
clear(c) ==
    Returned([c EXCEPT !.head = NULL, !.tail = NULL,
                       !.lookupTable = [x \in {} |-> NULL]], NULL)

\* get newest()
newest(c) ==
    IF c.head = NULL THEN Returned(c, NullEntry)
    ELSE Returned(c, mapNodeToEntry(c.nodes[c.head]))

\* get oldest()
oldest(c) ==
    IF c.tail = NULL THEN Returned(c, NullEntry)
    ELSE Returned(c, mapNodeToEntry(c.nodes[c.tail]))

\* get maxSize()
maxSizeGetter(c) == Returned(c, c.maxSizeInternal)

\* Mutant of the maxSize setter: the new limit is stored and not enforced.
maxSizeSetterWithoutEnforcing(c, value) ==
    IF IsNaN(value) \/ value <= 0
    THEN Thrown(c)
    ELSE Returned([c EXCEPT !.maxSizeInternal = value], NULL)

\* Mutant of the maxSize setter: the value is stored before it is validated.
maxSizeSetterStoringFirst(c, value) ==
    IF IsNaN(value) \/ value <= 0
    THEN Thrown([c EXCEPT !.maxSizeInternal = value])
    ELSE Returned(enforceSizeLimit([c EXCEPT !.maxSizeInternal = value]), NULL)

\* set maxSize(value)
maxSizeSetter(c, value) ==
    IF IsNaN(value) \/ value <= 0
    THEN Thrown(c)
    ELSE Returned(enforceSizeLimit([c EXCEPT !.maxSizeInternal = value]), NULL)

\* The condition callback of find applied to an entry.
Holds(condition, entry) ==
    CASE condition.kind = "key" -> entry.key = condition.x
      [] condition.kind = "value" -> entry.value = condition.x
      [] OTHER -> FALSE

\* The condition callback of find is invoked with an entry; isExpired tells
\* whether the node of the entry is expired at that moment.
invokeCondition(c, id) ==
    LET n == c.nodes[id] IN
    [c EXCEPT !.events = Append(@,
        [type |-> "condition", fn |-> "condition", key |-> n.key,
         value |-> n.value, isExpired |-> isExpired(n)])]

\* The loop of find with the condition applied before the node is tested
\* for expiry.
RECURSIVE findFromTestingConditionFirst(_, _, _)
findFromTestingConditionFirst(c, node, condition) ==
    IF node = NULL THEN Returned(c, NullEntry)
    ELSE LET c1 == invokeCondition(c, node) IN
         IF isExpired(c.nodes[node])
         THEN LET next == c.nodes[node].next
              IN  findFromTestingConditionFirst(
                      removeNodeFromListAndLookupTable(c1, node), next, condition)
         ELSE IF Holds(condition, mapNodeToEntry(c.nodes[node]))
         THEN Returned(setNodeAsHead(c1, node), mapNodeToEntry(c.nodes[node]))
         ELSE findFromTestingConditionFirst(c1, c.nodes[node].next, condition)

\* LRUCache.find: the loop from `node` on.
RECURSIVE findFrom(_, _, _)
findFrom(c, node, condition) ==
    IF node = NULL THEN Returned(c, NullEntry)
    ELSE IF isExpired(c.nodes[node])
    THEN LET next == c.nodes[node].next
         IN  findFrom(removeNodeFromListAndLookupTable(c, node), next, condition)
    ELSE LET c1 == invokeCondition(c, node) IN
         IF Holds(condition, mapNodeToEntry(c.nodes[node]))
         THEN Returned(setNodeAsHead(c1, node), mapNodeToEntry(c.nodes[node]))
         ELSE findFrom(c1, c.nodes[node].next, condition)

\* The loop of find with the next field of an expired node read after the
\* node has been removed: the walk ends at the first expired node.
RECURSIVE findFromReadingNextAfterRemoval(_, _, _)
findFromReadingNextAfterRemoval(c, node, condition) ==
    IF node = NULL THEN Returned(c, NullEntry)
    ELSE IF isExpired(c.nodes[node])
    THEN LET c1 == removeNodeFromListAndLookupTable(c, node)
         IN  findFromReadingNextAfterRemoval(c1, c1.nodes[node].next, condition)
    ELSE LET c1 == invokeCondition(c, node) IN
         IF Holds(condition, mapNodeToEntry(c.nodes[node]))
         THEN Returned(setNodeAsHead(c1, node), mapNodeToEntry(c.nodes[node]))
         ELSE findFromReadingNextAfterRemoval(c1, c.nodes[node].next, condition)

\* Mutant of find (see findFromReadingNextAfterRemoval).
findReadingNextAfterRemoval(c, condition) ==
    findFromReadingNextAfterRemoval(c, c.head, condition)

\* Mutant of find (see findFromTestingConditionFirst).
findTestingConditionFirst(c, condition) ==
    findFromTestingConditionFirst(c, c.head, condition)

find(c, condition) == findFrom(c, c.head, condition)

\* LRUCache.forEach: the loop from `node` on; `calls` are the invocations of
\* the callback made so far, each <<value, key, index>>.
RECURSIVE forEachFrom(_, _, _, _)
forEachFrom(c, node, index, calls) ==
    IF node = NULL THEN Returned(c, calls)
    ELSE IF isExpired(c.nodes[node])
    THEN LET next == c.nodes[node].next
         IN  forEachFrom(removeNodeFromListAndLookupTable(c, node), next, index, calls)
    ELSE forEachFrom(invokeCloneFn(c, node), c.nodes[node].next, index + 1,
                     Append(calls, <<c.nodes[node].value, c.nodes[node].key, index>>))

\* Mutant of forEach: the index counts the expired nodes too.
RECURSIVE forEachFromCountingExpired(_, _, _, _)
forEachFromCountingExpired(c, node, index, calls) ==
    IF node = NULL THEN Returned(c, calls)
    ELSE IF isExpired(c.nodes[node])
    THEN LET next == c.nodes[node].next
         IN  forEachFromCountingExpired(removeNodeFromListAndLookupTable(c, node),
                                        next, index + 1, calls)
    ELSE forEachFromCountingExpired(c, c.nodes[node].next, index + 1,
             Append(calls, <<c.nodes[node].value, c.nodes[node].key, index>>))

forEachCountingExpired(c) == forEachFromCountingExpired(c, c.head, 0, << >>)

forEach(c) == forEachFrom(c, c.head, 0, << >>)

\* What each generator yields for a node.
Generators == {"values", "keys", "entries", "iterator"}

Yield(generator, n) ==
    CASE generator = "values" -> n.value
      [] generator = "keys" -> n.key
      [] OTHER -> mapNodeToEntry(n)

\* values(), keys(), entries() and [Symbol.iterator](), pulled until done with
\* nothing else run in between: the loop from `node` on.
RECURSIVE generateFrom(_, _, _, _)
generateFrom(c, node, generator, yielded) ==
    IF node = NULL THEN Returned(c, yielded)
    ELSE IF isExpired(c.nodes[node])
    THEN LET next == c.nodes[node].next
         IN  generateFrom(removeNodeFromListAndLookupTable(c, node), next,
                          generator, yielded)
    ELSE generateFrom(IF generator = "keys" THEN c ELSE invokeCloneFn(c, node),
                      c.nodes[node].next, generator,
                      Append(yielded, Yield(generator, c.nodes[node])))

\* Mutant of the generators: an expired node is skipped and not removed.
RECURSIVE generateFromSkippingExpired(_, _, _, _)
generateFromSkippingExpired(c, node, generator, yielded) ==
    IF node = NULL THEN Returned(c, yielded)
    ELSE IF isExpired(c.nodes[node])
    THEN generateFromSkippingExpired(c, c.nodes[node].next, generator, yielded)
    ELSE generateFromSkippingExpired(c, c.nodes[node].next, generator,
                                     Append(yielded, Yield(generator, c.nodes[node])))

generateSkippingExpired(c, generator) ==
    generateFromSkippingExpired(c, c.head, generator, << >>)

generate(c, generator) == generateFrom(c, c.head, generator, << >>)

\* A generator object that values(), keys(), entries() or [Symbol.iterator]()
\* returned.  The body of a generator function does not run before the first
\* next(): pc is "created" until then, "suspended" at the yield for `node`
\* afterwards, and "done" once the loop has ended.
NewGenerator(generator) ==
    [generator |-> generator, pc |-> "created", node |-> NULL, yielded |-> << >>]

\* The generators the caller holds at most.
MaxIterators == 2

\* The `while (node)` loop of a generator from `node` up to its next yield:
\* expired nodes are removed, and the loop stops at the first node that is
\* not expired, or at the end of the list.
RECURSIVE generatorLoop(_, _)
generatorLoop(c, node) ==
    IF node = NULL THEN [c |-> c, node |-> NULL]
    ELSE IF isExpired(c.nodes[node])
    THEN LET next == c.nodes[node].next
         IN  generatorLoop(removeNodeFromListAndLookupTable(c, node), next)
    ELSE [c |-> c, node |-> node]

\* Generator.next() on the generator object `it`: a new generator starts with
\* `let node = this.head`, a suspended one resumes with `node = node.next`,
\* which reads the next field the node has now.
generatorNext(c, it) ==
    IF it.pc = "done" THEN [c |-> c, it |-> it, ret |-> NULL]
    ELSE LET start == IF it.pc = "created" THEN c.head ELSE c.nodes[it.node].next
             r == generatorLoop(c, start)
         IN  IF r.node = NULL
             THEN [c |-> r.c, it |-> [it EXCEPT !.pc = "done", !.node = NULL],
                   ret |-> NULL]
             ELSE [c |-> IF it.generator = "keys" THEN r.c
                         ELSE invokeCloneFn(r.c, r.node),
                   it |-> [it EXCEPT !.pc = "suspended", !.node = r.node,
                                     !.yielded = Append(@, Yield(it.generator,
                                                                r.c.nodes[r.node]))],
                   ret |-> Yield(it.generator, r.c.nodes[r.node])]

---------------------------------------------------------------------------
(* The state machine: one action per public operation.                     *)

\* new LRUCache({maxSize, entryExpirationTimeInMS, onEntryEvicted,
\* onEntryMarkedAsMostRecentlyUsed}) with valid options.
Init ==
    /\ nodes = [x \in {} |-> NULL]
    /\ lookupTable = [x \in {} |-> NULL]
    /\ head = NULL
    /\ tail = NULL
    /\ maxSizeInternal \in 1..MaxCapacity
    /\ entryExpirationTimeInMS \in DefaultExpirations
    /\ now = 0
    /\ events = << >>
    /\ last = [op |-> "new", arg |-> NULL, ret |-> NULL, threw |-> FALSE, at |-> 0]
    /\ clone = FALSE
    /\ cloneFn = NoCallback
    /\ iterators = << >>
    /\ alone = NULL
    /\ seen = << >>

\* The state an operation leaves: the object's fields, the heap without the
\* nodes nothing references any more, and the record of the call (`at` is
\* the time of the call).
Commit(op, arg, call) ==
    \E r \in {call} :
        /\ nodes' = [i \in Referenced(r.c, Roots(r.c) \cup Suspended(iterators)) |->
                         r.c.nodes[i]]
        /\ lookupTable' = r.c.lookupTable
        /\ head' = r.c.head
        /\ tail' = r.c.tail
        /\ maxSizeInternal' = r.c.maxSizeInternal
        /\ events' = r.c.events
        /\ last' = [op |-> op, arg |-> arg, ret |-> r.ret, threw |-> r.threw,
                    at |-> now]
        /\ seen' = r.c.seen
        /\ UNCHANGED <<entryExpirationTimeInMS, now, clone, cloneFn, iterators, alone>>

Set(key, value, entryOptions) ==
    Commit("set", [key |-> key, value |-> value, entryOptions |-> entryOptions],
           set(This, key, value, entryOptions))

Get(key) == Commit("get", key, get(This, key))

Peek(key) == Commit("peek", key, peek(This, key))

Delete(key) == Commit("delete", key, delete(This, key))

Has(key) == Commit("has", key, has(This, key))

Clear == Commit("clear", NULL, clear(This))

Find(condition) == Commit("find", condition, find(This, condition))

ForEach == Commit("forEach", NULL, forEach(This))

Generate(generator) == Commit(generator, NULL, generate(This, generator))

Newest == Commit("newest", NULL, newest(This))

Oldest == Commit("oldest", NULL, oldest(This))

Size == Commit("size", NULL, Returned(This, size(This)))

RemainingSize == Commit("remainingSize", NULL, Returned(This, remainingSize(This)))

GetMaxSize == Commit("maxSize", NULL, maxSizeGetter(This))

SetMaxSize(value) == Commit("setMaxSize", value, maxSizeSetter(This, value))

\* Time passes: Date.now() grows by ms.
Tick(ms) ==
    /\ now + ms <= MaxTime
    /\ now' = now + ms
    /\ UNCHANGED <<nodes, lookupTable, head, tail, maxSizeInternal,
                   entryExpirationTimeInMS, events, last, clone, cloneFn,
                   iterators, alone, seen>>

\* The values a caller sets under a key: any of `values` under the first key,
\* so that an overwrite can change the value, and the first of them under the
\* other keys.
ValuesFor(key, values) ==
    IF \A k \in Keys : key <= k THEN values
    ELSE {CHOOSE v \in values : \A w \in values : v <= w}

\* The calls, with the values and the options of set and the values given to
\* the maxSize setter drawn from the given sets.
Calls(values, options, maxSizes) ==
    \/ \E key \in Keys, entryOptions \in options :
           \E value \in ValuesFor(key, values) : Set(key, value, entryOptions)
    \/ \E key \in Keys : Get(key)
    \/ \E key \in Keys : Peek(key)
    \/ \E key \in Keys : Delete(key)
    \/ \E key \in Keys : Has(key)
    \/ Clear
    \/ \E condition \in Conditions : Find(condition)
    \/ ForEach
    \/ \E generator \in Generators : Generate(generator)
    \/ Newest
    \/ Oldest
    \/ Size
    \/ RemainingSize
    \/ GetMaxSize
    \/ \E value \in maxSizes : SetMaxSize(value)
    \/ \E ms \in TimeSteps : Tick(ms)

Next == Calls(Values, SetOptions, MaxSizes)

Spec == Init /\ [][Next]_vars

\* The same cache, with per-entry expirations: entries that expire and
\* entries that never do share the list, so that an expired entry can stand
\* in front of a live one.
NextExpiry == Calls(ExpiryValues, ExpiryOptions, MaxSizes)

SpecExpiry == Init /\ [][NextExpiry]_vars

\* The same cache, with entries that carry a callback of their own next to
\* entries that use the callbacks of the cache.
NextCallbacks == Calls(ExpiryValues, CallbackOptions, MaxSizes)

SpecCallbacks == Init /\ [][NextCallbacks]_vars

\* new LRUCache({maxSize, clone: true, cloneFn}): a cache that clones.
InitClone ==
    /\ nodes = [x \in {} |-> NULL]
    /\ lookupTable = [x \in {} |-> NULL]
    /\ head = NULL
    /\ tail = NULL
    /\ maxSizeInternal \in 1..MaxCapacity
    /\ entryExpirationTimeInMS = NULL
    /\ now = 0
    /\ events = << >>
    /\ last = [op |-> "new", arg |-> NULL, ret |-> NULL, threw |-> FALSE, at |-> 0]
    /\ clone = TRUE
    /\ cloneFn = CacheCloneFn
    /\ iterators = << >>
    /\ alone = NULL
    /\ seen = << >>

NextClone == Calls(ExpiryValues, CloneOptions, MaxSizes)

SpecClone == InitClone /\ [][NextClone]_vars

\* The caller asks for a generator: nothing of the cache is read yet.  The
\* first generator is followed a second time in `alone`, a copy of the cache
\* on which no other generator runs.
Iterate(generator) ==
    /\ Len(iterators) < MaxIterators
    /\ iterators' = Append(iterators, NewGenerator(generator))
    /\ alone' = IF iterators = << >>
                THEN [c |-> This, it |-> NewGenerator(generator)]
                ELSE alone
    /\ events' = << >>
    /\ seen' = << >>
    /\ last' = [op |-> "iterate", arg |-> generator, ret |-> NULL, threw |-> FALSE,
                at |-> now]
    /\ UNCHANGED <<nodes, lookupTable, head, tail, maxSizeInternal,
                   entryExpirationTimeInMS, now, clone, cloneFn>>

\* The caller calls next() on its i-th generator.  The nodes that a
\* suspended generator refers to stay in the heap.  When it is the first
\* generator, the same call is made in `alone`, at the same time.
Pull(i) ==
    LET r == generatorNext(This, iterators[i])
        its == [iterators EXCEPT ![i] = r.it]
        a == generatorNext([alone.c EXCEPT !.events = << >>, !.seen = << >>], alone.it)
    IN  /\ nodes' = [n \in Referenced(r.c, Roots(r.c) \cup Suspended(its)) |->
                         r.c.nodes[n]]
        /\ lookupTable' = r.c.lookupTable
        /\ head' = r.c.head
        /\ tail' = r.c.tail
        /\ events' = r.c.events
        /\ seen' = r.c.seen
        /\ iterators' = its
        /\ alone' = IF i = 1 THEN [c |-> a.c, it |-> a.it] ELSE alone
        /\ last' = [op |-> "next", arg |-> i, ret |-> r.ret, threw |-> FALSE,
                    at |-> now]
        /\ UNCHANGED <<maxSizeInternal, entryExpirationTimeInMS, now, clone, cloneFn>>

\* The cache is filled by set while time passes; then the caller takes
\* generators and does nothing but call next() on them, in any order, while
\* time passes.
NextIter ==
    \/ /\ iterators = << >>
       /\ \E key \in Keys, entryOptions \in ExpiryOptions :
              Set(key, 10, entryOptions)
    \/ \E ms \in TimeSteps : Tick(ms)
    \/ \E generator \in {"keys", "values", "entries"} : Iterate(generator)
    \/ \E i \in DOMAIN iterators : Pull(i)

SpecIter == Init /\ [][NextIter]_vars

\* The caller deletes the key of the entry its generator has just yielded.
DeleteYielded ==
    /\ iterators # << >>
    /\ iterators[1].pc = "suspended"
    /\ last.op = "next"
    /\ Delete(nodes[iterators[1].node].key)

\* The cache is filled by set while time passes; then the caller takes one
\* generator and calls next() on it, deleting between two calls, or not,
\* the key just yielded.  `alone` is the same traversal without the
\* deletions.
NextRemove ==
    \/ /\ iterators = << >>
       /\ \E key \in Keys, entryOptions \in ExpiryOptions :
              Set(key, 10, entryOptions)
    \/ \E ms \in TimeSteps : Tick(ms)
    \/ /\ iterators = << >>
       /\ \E generator \in {"keys", "values", "entries"} : Iterate(generator)
    \/ iterators # << >> /\ Pull(1)
    \/ DeleteYielded

SpecRemove == Init /\ [][NextRemove]_vars

\* The loops that walk the list and hand each entry to code of the caller:
\* for ... of over a generator, and forEach, which runs the same loop with
\* its callback in the place of the yield.
Loops == Generators \cup {"forEach"}

\* A loop over a cache of at least two entries starts: no entry is read yet.
ForOf(generator) ==
    /\ iterators = << >>
    /\ size(This) >= 2
    /\ iterators' = <<NewGenerator(generator)>>
    /\ events' = << >>
    /\ seen' = << >>
    /\ last' = [op |-> "forOf", arg |-> generator, ret |-> NULL, threw |-> FALSE,
                at |-> now]
    /\ UNCHANGED <<nodes, lookupTable, head, tail, maxSizeInternal,
                   entryExpirationTimeInMS, now, clone, cloneFn, alone>>

\* The loop moves on to its next entry, or finds the end of the list; what
\* it has handed out before is not kept, and of the entry it hands out now
\* the key is recorded.
LoopNext ==
    /\ iterators # << >>
    /\ iterators[1].pc # "done"
    /\ last.op # "next"
    /\ \E r \in {generatorNext(This, iterators[1])} :
       \E its \in {<<[r.it EXCEPT !.yielded = << >>]>>} :
           /\ nodes' = [n \in Referenced(r.c, Roots(r.c) \cup Suspended(its)) |->
                            r.c.nodes[n]]
           /\ lookupTable' = r.c.lookupTable
           /\ head' = r.c.head
           /\ tail' = r.c.tail
           /\ events' = r.c.events
           /\ seen' = r.c.seen
           /\ iterators' = its
           /\ last' = [op |-> "next", arg |-> 1,
                       ret |-> IF r.it.node = NULL THEN NULL
                               ELSE r.c.nodes[r.it.node].key,
                       threw |-> FALSE, at |-> now]
    /\ UNCHANGED <<maxSizeInternal, entryExpirationTimeInMS, now, clone, cloneFn, alone>>

\* The body of the loop, or the callback of forEach, run for the entry just
\* handed out: it calls get or set with a key of the cache.
Body ==
    /\ iterators # << >>
    /\ iterators[1].pc = "suspended"
    /\ last.op = "next"
    /\ \E key \in DOMAIN lookupTable :
           \/ Get(key)
           \/ \E value \in ExpiryValues : Set(key, value, NoOptions)

\* The loop has found the end of the list and is left.
EndLoop ==
    /\ iterators # << >>
    /\ iterators[1].pc = "done"
    /\ iterators' = << >>
    /\ UNCHANGED <<nodes, lookupTable, head, tail, maxSizeInternal,
                   entryExpirationTimeInMS, now, events, last, clone, cloneFn,
                   alone, seen>>

\* The steps of a loop that has started: they follow one another without
\* waiting for anything, as the statements of a synchronous loop do.
LoopStep == LoopNext \/ Body \/ EndLoop

\* The cache is filled by set; loops are run one at a time.
NextLoop ==
    \/ /\ iterators = << >>
       /\ \E key \in Keys, value \in ExpiryValues : Set(key, value, NoOptions)
    \/ \E generator \in Loops : ForOf(generator)
    \/ LoopStep

\* Every step of a loop changes the generator object or the call last made.
loopVars == <<iterators, last.op>>

SpecLoop == Init /\ [][NextLoop]_vars /\ WF_loopVars(LoopStep)

\* The calls that store and look up entries, with the entries of SpecExpiry
\* and a clock that advances by one unit: an entry is met at the age that
\* equals its duration, and is accessed at several times of its life.
NextUnit ==
    \/ \E key \in Keys, value \in ExpiryValues, entryOptions \in ExpiryOptions :
           Set(key, value, entryOptions)
    \/ \E key \in Keys : Get(key)
    \/ \E key \in Keys : Peek(key)
    \/ \E key \in Keys : Has(key)
    \/ \E condition \in Conditions : Find(condition)
    \/ Tick(1)

SpecUnit == Init /\ [][NextUnit]_vars

\* The constructor throws on a maxSize <= 0 or NaN and on a numeric default
\* duration <= 0 or NaN.
LRUCacheConstructorThrows(options) ==
    \/ IsNaN(options.maxSize)
    \/ options.maxSize <= 0
    \/ /\ options.entryExpirationTimeInMS # NULL
       /\ \/ options.entryExpirationTimeInMS <= 0
          \/ IsNaN(options.entryExpirationTimeInMS)

\* new LRUCache(options) with any options: when the constructor throws there
\* is no cache object, and nothing can be called.
Constructed == ~(last.op = "new" /\ last.threw)

InitAny ==
    \E options \in ConstructorOptions :
        /\ nodes = [x \in {} |-> NULL]
        /\ lookupTable = [x \in {} |-> NULL]
        /\ head = NULL
        /\ tail = NULL
        /\ now = 0
        /\ events = << >>
        /\ clone = FALSE
        /\ cloneFn = NoCallback
        /\ iterators = << >>
        /\ alone = NULL
        /\ seen = << >>
        /\ last = [op |-> "new", arg |-> options, ret |-> NULL,
                   threw |-> LRUCacheConstructorThrows(options), at |-> 0]
        /\ IF LRUCacheConstructorThrows(options)
           THEN maxSizeInternal = NULL /\ entryExpirationTimeInMS = NULL
           ELSE /\ maxSizeInternal = options.maxSize
                /\ entryExpirationTimeInMS = options.entryExpirationTimeInMS

\* The same cache, constructed with and called with invalid arguments too.
NextAny == Constructed /\ Calls(ExpiryValues, AnyOptions, AnyMaxSizes)

SpecAny == InitAny /\ [][NextAny]_vars

---------------------------------------------------------------------------
(* What the claims are stated with.                                        *)

\* The nodes met walking from node `id` via next, at most `fuel` of them.
RECURSIVE WalkFrom(_, _)
WalkFrom(id, fuel) ==
    IF id = NULL \/ fuel = 0 THEN << >>
    ELSE <<id>> \o WalkFrom(nodes[id].next, fuel - 1)

\* The walk from head; one node longer than the heap when the list cycles.
List == WalkFrom(head, Cardinality(DOMAIN nodes) + 1)

\* The keys, and the entries {key, value}, read from head to tail.
Order == [i \in 1..Len(List) |-> nodes[List[i]].key]

Entries == [i \in 1..Len(List) |-> mapNodeToEntry(nodes[List[i]])]

\* A sequence of keys without key k, and restricted to the keys K; a
\* sequence of entries without the entry of key k.
Without(seq, k) == SelectSeq(seq, LAMBDA x : x # k)

Restrict(seq, K) == SelectSeq(seq, LAMBDA x : x \in K)

WithoutEntry(seq, k) == SelectSeq(seq, LAMBDA e : e.key # k)

\* The spec's expiry: the age of the node exceeds its duration at time t.
Expired(n, t) ==
    n.entryExpirationTimeInMS # NULL /\ t - n.created > n.entryExpirationTimeInMS

\* The step is a call of operation op (Tick is the only step that leaves
\* `last` as it is, and the only one that moves the clock).
Ran(op) == last'.op = op /\ now' = now

Evictions == SelectSeq(events, LAMBDA e : e.type = "evicted")

Promotions == SelectSeq(events, LAMBDA e : e.type = "mru")

---------------------------------------------------------------------------
\* C1: after every operation size <= maxSize, so remainingSize >= 0.
C1_SizeWithinMaxSize ==
    /\ size(This) <= maxSizeInternal
    /\ remainingSize(This) >= 0

\* A set into a full cache has evicted another entry and left the cache full.
C1_Witness ==
    /\ last.op = "set"
    /\ size(This) = maxSizeInternal
    /\ \E i \in DOMAIN events :
           events[i].type = "evicted" /\ events[i].key # last.arg.key

\* C2: the index and the recency list hold the same entries: the walk from
\* head meets no node twice, every node met is the one the index holds for
\* its key, every key of the index is met exactly once, and the number of
\* nodes met is size.
C2_IndexAndListAgree ==
    /\ \A i, j \in DOMAIN List : List[i] = List[j] => i = j
    /\ \A i \in DOMAIN List :
           /\ nodes[List[i]].key \in DOMAIN lookupTable
           /\ lookupTable[nodes[List[i]].key] = List[i]
    /\ \A k \in DOMAIN lookupTable :
           Cardinality({i \in DOMAIN List : nodes[List[i]].key = k}) = 1
    /\ Len(List) = size(This)

\* Lowering maxSize has evicted two entries of three.
C2_Witness ==
    /\ last.op = "setMaxSize"
    /\ Len(Evictions) = 2
    /\ size(This) = 1

\* C3: a set (that returns) of a key not in the cache, when size = maxSize,
\* removes exactly the tail entry: the entries head to tail afterwards are the
\* new entry followed by the old ones without the last, and size is still
\* maxSize; when size < maxSize they are the new entry followed by all the
\* old ones.
C3_SetEvictsOnlyTail ==
    [][(Ran("set") /\ ~last'.threw /\ last'.arg.key \notin DOMAIN lookupTable) =>
          LET new == [key |-> last'.arg.key, value |-> last'.arg.value] IN
          IF size(This) = maxSizeInternal
          THEN /\ Entries' = <<new>> \o SubSeq(Entries, 1, Len(Entries) - 1)
               /\ DOMAIN lookupTable' =
                      (DOMAIN lookupTable \ {nodes[tail].key}) \cup {new.key}
               /\ size(This)' = maxSizeInternal
               /\ Len(Evictions') = 1
               /\ Evictions'[1].key = nodes[tail].key
          ELSE /\ Entries' = <<new>> \o Entries
               /\ Evictions' = << >>]_vars

\* A set of a new key into a full cache of two has evicted one entry.
C3_Witness ==
    /\ last.op = "set"
    /\ ~last.threw
    /\ maxSizeInternal = 2
    /\ size(This) = 2
    /\ Len(Evictions) = 1
    /\ Evictions[1].key # last.arg.key
    /\ ~Evictions[1].isExpired

\* C4: the keys read head to tail follow the abstract sequence: a set that
\* returns, a get that returns a value and a find that returns an entry move
\* that key to the front; every other operation (and a set that throws)
\* leaves the keys that remain in the order they had; a key leaves the
\* sequence when it leaves the index.
C4_AbstractOrder(old, op, remaining) ==
    IF op.op = "set" /\ ~op.threw
    THEN Restrict(<<op.arg.key>> \o Without(old, op.arg.key), remaining)
    ELSE IF op.op = "get" /\ op.ret # NULL
    THEN Restrict(<<op.arg>> \o Without(old, op.arg), remaining)
    ELSE IF op.op = "find" /\ op.ret # NullEntry
    THEN Restrict(<<op.ret.key>> \o Without(old, op.ret.key), remaining)
    ELSE Restrict(old, remaining)

C4_ListRefinesSequence ==
    [][now' = now => Order' = C4_AbstractOrder(Order, last', DOMAIN lookupTable')]_vars

\* A get has moved an entry in front of one created after it.
C4_Witness ==
    /\ last.op = "get"
    /\ Len(List) >= 2
    /\ nodes[List[1]].created < nodes[List[2]].created

\* C5: immediately after a set(k, v) that returns (the clock is still at
\* the time of the call), has(k) is true, newest is the entry (k, v) and
\* get(k) returns v.
C5_SetThenRead ==
    (last.op = "set" /\ ~last.threw /\ last.at = now) =>
        /\ has(This, last.arg.key).ret
        /\ newest(This).ret = [key |-> last.arg.key, value |-> last.arg.value]
        /\ get(This, last.arg.key).ret = last.arg.value

\* A set has overwritten the value of a key that was in the cache.
C5_Witness ==
    /\ last.op = "set"
    /\ ~last.threw
    /\ last.at = now
    /\ \E i \in DOMAIN events :
           /\ events[i].type = "evicted"
           /\ events[i].key = last.arg.key
           /\ events[i].value # last.arg.value

\* C6: get(k) of a present entry that is not expired returns its value and
\* puts it first; the other entries keep their order, none is removed and
\* size is unchanged.  get(k) of an absent key returns null and changes
\* nothing.
C6_GetPromotes ==
    [][Ran("get") =>
          LET k == last'.arg IN
          IF k \notin DOMAIN lookupTable
          THEN /\ last'.ret = NULL
               /\ UNCHANGED <<nodes, lookupTable, head, tail, maxSizeInternal>>
               /\ events' = << >>
          ELSE LET n == nodes[lookupTable[k]] IN
               ~Expired(n, now) =>
                   /\ last'.ret = n.value
                   /\ Entries' = <<mapNodeToEntry(n)>> \o WithoutEntry(Entries, k)
                   /\ lookupTable' = lookupTable
                   /\ size(This)' = size(This)
                   /\ Evictions' = << >>]_vars

\* A get has returned a value and moved the entry in front of two others,
\* the first of which was created after it.
C6_Witness ==
    /\ last.op = "get"
    /\ last.ret # NULL
    /\ Len(List) = 3
    /\ nodes[List[1]].created < nodes[List[2]].created

\* The nodes of the list whose age does not exceed their duration.
LiveList == SelectSeq(List, LAMBDA id : ~Expired(nodes[id], now))

\* C7: no value of an expired entry is handed out: a get or peek that returns
\* a value returns the value of an entry that is not expired, a find returns
\* an entry that is not expired, and forEach and the generators pass or yield
\* exactly the entries that are not expired, in list order.
C7_NoExpiredValueReturned ==
    [][now' = now =>
          LET op == last' IN
          /\ (op.op \in {"get", "peek"} /\ op.ret # NULL) =>
                 /\ op.arg \in DOMAIN lookupTable
                 /\ ~Expired(nodes[lookupTable[op.arg]], now)
                 /\ op.ret = nodes[lookupTable[op.arg]].value
          /\ (op.op = "find" /\ op.ret # NullEntry) =>
                 /\ op.ret.key \in DOMAIN lookupTable
                 /\ ~Expired(nodes[lookupTable[op.ret.key]], now)
                 /\ op.ret = mapNodeToEntry(nodes[lookupTable[op.ret.key]])
          /\ op.op = "forEach" =>
                 op.ret = [i \in 1..Len(LiveList) |->
                              <<nodes[LiveList[i]].value, nodes[LiveList[i]].key, i - 1>>]
          /\ op.op \in Generators =>
                 op.ret = [i \in 1..Len(LiveList) |->
                              Yield(op.op, nodes[LiveList[i]])]]_vars

\* A find has pruned an expired entry on its way to the live entry it
\* returned.
C7_Witness ==
    /\ last.op = "find"
    /\ last.ret # NullEntry
    /\ \E i \in DOMAIN events : events[i].type = "evicted" /\ events[i].isExpired

\* C8: get(k) and peek(k) of a present, expired entry return null, remove the
\* entry from the index and the list, invoke its eviction callback exactly
\* once, with isExpired = true, and leave the other entries and their order
\* as they were.
C8_ExpiredLookupPrunes ==
    [][(Ran("get") \/ Ran("peek")) =>
          LET k == last'.arg IN
          (k \in DOMAIN lookupTable /\ Expired(nodes[lookupTable[k]], now)) =>
              LET n == nodes[lookupTable[k]] IN
              /\ last'.ret = NULL
              /\ k \notin DOMAIN lookupTable'
              /\ size(This)' = size(This) - 1
              /\ Entries' = WithoutEntry(Entries, k)
              /\ events' = <<[type |-> "evicted", fn |-> n.onEntryEvicted,
                              key |-> k, value |-> n.value, isExpired |-> TRUE]>>]_vars

\* A peek has pruned an expired entry and left two entries.
C8_Witness ==
    /\ last.op = "peek"
    /\ last.ret = NULL
    /\ Len(events) = 1
    /\ events[1].type = "evicted"
    /\ events[1].isExpired
    /\ events[1].key = last.arg
    /\ size(This) = 2

\* C9 as stated: peek(k) never changes head, whatever k is.
C9_PeekNeverChangesHead ==
    [][Ran("peek") => head' = head]_vars

\* C9, amended: peek(k) leaves head as it is, except when k is the head entry
\* and is expired: that entry is removed and the entry after it (or none)
\* is head.
C9_PeekChangesHeadOnlyByPruning ==
    [][Ran("peek") =>
          LET k == last'.arg IN
          IF /\ k \in DOMAIN lookupTable
             /\ lookupTable[k] = head
             /\ Expired(nodes[head], now)
          THEN head' = nodes[head].next
          ELSE head' = head]_vars

\* A peek has returned the value of an entry that is not the head of three.
C9_Witness ==
    /\ last.op = "peek"
    /\ last.ret # NULL
    /\ size(This) = 3
    /\ nodes[head].key # last.arg

\* The operations that only observe.
Observers == {"has", "size", "remainingSize", "maxSize", "newest", "oldest"}

\* C10: has, size, remainingSize, the maxSize getter, newest and oldest change
\* nothing and invoke no callback; they do not look at expiry: has(k) tells
\* whether k is in the index, newest is the head entry, oldest the tail entry,
\* both null exactly when size is 0.
C10_ObserversArePure ==
    [][(now' = now /\ last'.op \in Observers) =>
          LET op == last' IN
          /\ UNCHANGED <<nodes, lookupTable, head, tail, maxSizeInternal>>
          /\ events' = << >>
          /\ op.op = "has" => op.ret = (op.arg \in DOMAIN lookupTable)
          /\ op.op = "size" => op.ret = Len(List)
          /\ op.op = "remainingSize" => op.ret = maxSizeInternal - Len(List)
          /\ op.op = "maxSize" => op.ret = maxSizeInternal
          /\ op.op = "newest" =>
                 /\ (op.ret = NullEntry) = (size(This) = 0)
                 /\ size(This) > 0 => op.ret = Entries[1]
          /\ op.op = "oldest" =>
                 /\ (op.ret = NullEntry) = (size(This) = 0)
                 /\ size(This) > 0 => op.ret = Entries[Len(Entries)]]_vars

\* has(k) has answered true for an entry that is expired and not yet pruned.
C10_Witness ==
    /\ last.op = "has"
    /\ last.ret
    /\ last.arg \in DOMAIN lookupTable
    /\ Expired(nodes[lookupTable[last.arg]], now)

\* C11: delete(k) returns true exactly when k was in the cache; afterwards
\* has(k) is false, get(k) is null and a second delete(k) returns false; when
\* it returned true size is one less and the other entries keep their values
\* and order; when it returned false nothing has changed.
C11_DeleteRemovesOnlyTheKey ==
    [][Ran("delete") =>
          \A k \in Keys : k = last'.arg =>
          /\ last'.ret = (k \in DOMAIN lookupTable)
          /\ has(This, k).ret' = FALSE
          /\ get(This, k).ret' = NULL
          /\ delete(This, k).ret' = FALSE
          /\ IF k \in DOMAIN lookupTable
             THEN /\ size(This)' = size(This) - 1
                  /\ Entries' = WithoutEntry(Entries, k)
                  /\ maxSizeInternal' = maxSizeInternal
             ELSE /\ UNCHANGED <<nodes, lookupTable, head, tail, maxSizeInternal>>
                  /\ events' = << >>]_vars

\* A delete has removed one entry of three and left the cache with room.
C11_Witness ==
    /\ last.op = "delete"
    /\ last.ret = TRUE
    /\ size(This) = 2
    /\ remainingSize(This) = 1

\* C12: delete(k) invokes no eviction callback.
C12_DeleteInvokesNoEvictionCallback ==
    [][Ran("delete") => Evictions' = << >>]_vars

\* C13: clear() leaves size 0, head and tail null, has(k) false for every k
\* and maxSize as it was, invokes no callback, does not throw, and on an
\* empty cache changes nothing.
C13_ClearEmptiesSilently ==
    [][Ran("clear") =>
          /\ ~last'.threw
          /\ size(This)' = 0
          /\ head' = NULL
          /\ tail' = NULL
          /\ List' = << >>
          /\ \A k \in Keys : has(This, k).ret' = FALSE
          /\ maxSizeInternal' = maxSizeInternal
          /\ events' = << >>
          /\ size(This) = 0 =>
                 UNCHANGED <<nodes, lookupTable, head, tail, maxSizeInternal>>]_vars

\* A clear has emptied a cache of capacity three, after time has passed.
C13_Witness ==
    /\ last.op = "clear"
    /\ size(This) = 0
    /\ maxSizeInternal = 3
    /\ now > last.at

\* A set that returned has just replaced the entry of its key: it invoked the
\* eviction callback of the entry the key had, and the clock has not moved.
C14_Overwritten ==
    /\ last.op = "set"
    /\ ~last.threw
    /\ last.at = now
    /\ \E i \in DOMAIN Evictions : Evictions[i].key = last.arg.key

\* C14: a set(k, v2) that returns, of a key k in the cache, replaces the
\* entry: size and the set of keys are unchanged (also at size = maxSize),
\* the list holds one node for k, the entries are (k, v2) followed by the
\* other entries as they were, get(k) returns v2, and the only eviction
\* callback invoked is the old entry's, once, with the old value.
C14_OverwriteReplacesInPlace ==
    /\ [](C14_Overwritten => get(This, last.arg.key).ret = last.arg.value)
    /\ [][(Ran("set") /\ ~last'.threw /\ last'.arg.key \in DOMAIN lookupTable) =>
            \A k \in Keys : k = last'.arg.key =>
                LET old == nodes[lookupTable[k]] IN
                /\ size(This)' = size(This)
                /\ DOMAIN lookupTable' = DOMAIN lookupTable
                /\ Cardinality({i \in DOMAIN List' : nodes'[List'[i]].key = k}) = 1
                /\ Entries' = <<[key |-> k, value |-> last'.arg.value]>>
                                  \o WithoutEntry(Entries, k)
                /\ Len(Evictions') = 1
                /\ Evictions'[1].fn = old.onEntryEvicted
                /\ Evictions'[1].key = k
                /\ Evictions'[1].value = old.value]_vars

\* A set has given another value to an entry of a full cache of three.
C14_Witness ==
    /\ last.op = "set"
    /\ ~last.threw
    /\ size(This) = 3
    /\ maxSizeInternal = 3
    /\ Len(Evictions) = 1
    /\ Evictions[1].key = last.arg.key
    /\ Evictions[1].value # last.arg.value

\* The entry of key k leaves the cache in this step: the key leaves the
\* index, or a set puts a new entry in its place.
C15_Leaves(k) ==
    /\ k \in DOMAIN lookupTable
    /\ \/ k \notin DOMAIN lookupTable'
       \/ last'.op = "set" /\ last'.arg.key = k

\* C15: in every operation, each eviction callback invoked is the callback
\* of an entry that leaves the cache in that operation, invoked with its key
\* and value; and an entry that leaves through capacity eviction, expiry
\* pruning or overwrite (any operation but delete and clear) has its callback
\* invoked exactly once.
C15_EvictionCallbackOncePerLeavingEntry ==
    [][now' = now =>
          /\ \A i \in DOMAIN Evictions' :
                 LET e == Evictions'[i] IN
                 /\ C15_Leaves(e.key)
                 /\ e.fn = nodes[lookupTable[e.key]].onEntryEvicted
                 /\ e.value = nodes[lookupTable[e.key]].value
          /\ last'.op \notin {"delete", "clear"} =>
                 \A k \in DOMAIN lookupTable :
                     C15_Leaves(k) =>
                         Cardinality({i \in DOMAIN Evictions' :
                                          Evictions'[i].key = k}) = 1]_vars

\* A forEach has pruned two expired entries behind a live one.
C15_Witness ==
    /\ last.op = "forEach"
    /\ Len(Evictions) = 2
    /\ Evictions[1].key # Evictions[2].key
    /\ size(This) = 1

\* The operations that look for expired entries.
ExpiryPruners == {"get", "peek", "find", "forEach"} \cup Generators

\* C16: isExpired = true is passed to an eviction callback only by get,
\* peek, find, forEach and the generators; an entry removed by set (overwrite
\* or capacity) or by the maxSize setter is reported with isExpired = false.
C16_IsExpiredTellsTheCause ==
    [][now' = now =>
          \A i \in DOMAIN Evictions' :
              Evictions'[i].isExpired => last'.op \in ExpiryPruners]_vars

\* A value that maxSize rejects, a duration that the constructors reject.
InvalidNumber(x) == x = NaN \/ x <= 0

\* C17: assigning maxSize = m, m positive: when size > m the size - m entries
\* nearest the tail are removed, the callback of each invoked, tail entry
\* first, and the m entries nearest the head stay with their values and
\* order; when size <= m nothing is removed; the getter then returns m.
C17_ShrinkEvictsOldestFirst ==
    [][Ran("setMaxSize") =>
          \A m \in 1..MaxCapacity : m = last'.arg =>
              /\ ~last'.threw
              /\ maxSizeGetter(This).ret' = m
              /\ IF size(This) > m
                 THEN /\ Entries' = SubSeq(Entries, 1, m)
                      /\ DOMAIN lookupTable' = {Entries[i].key : i \in 1..m}
                      /\ Len(events') = size(This) - m
                      /\ \A i \in 1..(size(This) - m) :
                             LET n == nodes[List[Len(List) - i + 1]] IN
                             /\ events'[i].type = "evicted"
                             /\ events'[i].fn = n.onEntryEvicted
                             /\ events'[i].key = n.key
                             /\ events'[i].value = n.value
                 ELSE /\ Entries' = Entries
                      /\ lookupTable' = lookupTable
                      /\ events' = << >>]_vars

\* Lowering maxSize from three to two has evicted the tail entry of three.
C17_Witness ==
    /\ last.op = "setMaxSize"
    /\ last.arg = 2
    /\ ~last.threw
    /\ Len(Evictions) = 1
    /\ size(This) = 2
    /\ maxSizeInternal = 2

\* C18: constructing a cache with a maxSize that is <= 0 or NaN, or with a
\* numeric entryExpirationTimeInMS that is <= 0 or NaN, fails; assigning
\* maxSize a value that is <= 0 or NaN fails, leaves maxSize, the entries and
\* their order as they were and invokes no callback.
C18_InvalidConfigurationRejected ==
    /\ [](last.op = "new" =>
             ((\/ InvalidNumber(last.arg.maxSize)
               \/ /\ last.arg.entryExpirationTimeInMS # NULL
                  /\ InvalidNumber(last.arg.entryExpirationTimeInMS))
              => /\ last.threw
                 /\ size(This) = 0
                 /\ head = NULL
                 /\ tail = NULL))
    /\ [][(Ran("setMaxSize") /\ InvalidNumber(last'.arg)) =>
            /\ last'.threw
            /\ UNCHANGED <<nodes, lookupTable, head, tail, maxSizeInternal>>
            /\ events' = << >>]_vars

\* Assigning NaN to maxSize has failed on a cache that holds two entries.
C18_Witness ==
    /\ last.op = "setMaxSize"
    /\ last.arg = NaN
    /\ last.threw
    /\ size(This) = 2

\* The options of a set give a duration that is <= 0 or NaN.
C19_InvalidDuration(entryOptions) ==
    /\ "entryExpirationTimeInMS" \in DOMAIN entryOptions
    /\ entryOptions.entryExpirationTimeInMS # NULL
    /\ InvalidNumber(entryOptions.entryExpirationTimeInMS)

\* C19: a set with a per-entry duration that is <= 0 or NaN throws and
\* leaves the cache as it was: the entries, their order, size and maxSize
\* are unchanged and no callback has been invoked.
C19_InvalidSetChangesNothing ==
    [][(Ran("set") /\ C19_InvalidDuration(last'.arg.entryOptions)) =>
          /\ last'.threw
          /\ UNCHANGED <<nodes, lookupTable, head, tail, maxSizeInternal>>
          /\ events' = << >>]_vars

\* C20: the entry a set creates has the duration of the options of the set
\* when they hold one (null included: an entry that never expires, whatever
\* the default of the cache), and the default of the cache otherwise; the
\* duration of an entry does not change while the entry is in the cache; a
\* get of an entry whose duration is null returns its value at any time.
C20_DurationResolvedAtSet ==
    [][/\ (Ran("set") /\ ~last'.threw) =>
             LET o == last'.arg.entryOptions
                 n == nodes'[lookupTable'[last'.arg.key]]
             IN  n.entryExpirationTimeInMS =
                     IF "entryExpirationTimeInMS" \in DOMAIN o
                     THEN o.entryExpirationTimeInMS
                     ELSE entryExpirationTimeInMS
       /\ \A k \in DOMAIN lookupTable \cap DOMAIN lookupTable' :
              ~(Ran("set") /\ last'.arg.key = k) =>
                  nodes'[lookupTable'[k]].entryExpirationTimeInMS =
                      nodes[lookupTable[k]].entryExpirationTimeInMS
       /\ Ran("get") =>
              \A k \in DOMAIN lookupTable :
                  (k = last'.arg /\ nodes[lookupTable[k]].entryExpirationTimeInMS = NULL)
                      => last'.ret = nodes[lookupTable[k]].value]_vars

\* In a cache whose default duration is 1, a get at time 2 has returned the
\* value of an entry that a set created at time 0 with the duration null.
C20_Witness ==
    /\ last.op = "get"
    /\ last.ret # NULL
    /\ entryExpirationTimeInMS = 1
    /\ now = 2
    /\ nodes[head].created = 0
    /\ nodes[head].entryExpirationTimeInMS = NULL

\* The callback an entry is bound to by the options of its set: the one of
\* the options when they hold one, the one of the cache otherwise.
C21_Bound(entryOptions, property, cacheCallback) ==
    IF property \in DOMAIN entryOptions THEN entryOptions[property] ELSE cacheCallback

\* C21: callbacks are bound per entry at insertion: the node a set creates
\* holds the callbacks of the options of that set where they give one and
\* the callbacks of the cache otherwise, and keeps them while it is in the
\* cache; every eviction callback invoked is the one held by the entry that
\* is evicted (not the one of the set that caused the eviction), and every
\* most-recently-used callback invoked is the one held by the entry promoted.
C21_CallbacksBoundPerEntry ==
    [][now' = now =>
          /\ (last'.op = "set" /\ ~last'.threw) =>
                 LET o == last'.arg.entryOptions
                     n == nodes'[lookupTable'[last'.arg.key]]
                 IN  /\ n.onEntryEvicted =
                            C21_Bound(o, "onEntryEvicted", CacheOnEntryEvicted)
                     /\ n.onEntryMarkedAsMostRecentlyUsed =
                            C21_Bound(o, "onEntryMarkedAsMostRecentlyUsed",
                                      CacheOnEntryMarkedAsMostRecentlyUsed)
          /\ \A k \in DOMAIN lookupTable \cap DOMAIN lookupTable' :
                 ~(last'.op = "set" /\ last'.arg.key = k) =>
                     LET old == nodes[lookupTable[k]]
                         new == nodes'[lookupTable'[k]]
                     IN  /\ new.onEntryEvicted = old.onEntryEvicted
                         /\ new.onEntryMarkedAsMostRecentlyUsed =
                                old.onEntryMarkedAsMostRecentlyUsed
          /\ \A i \in DOMAIN events' :
                 LET e == events'[i] IN
                 /\ e.type = "evicted" =>
                        e.fn = nodes[lookupTable[e.key]].onEntryEvicted
                 /\ e.type = "mru" =>
                        e.fn = nodes'[lookupTable'[e.key]].onEntryMarkedAsMostRecentlyUsed]_vars

\* A set whose options hold callbacks has evicted an entry that was set
\* without: the callback of the cache was invoked for the evicted entry and
\* the callback of the options for the new one.
C21_Witness ==
    /\ last.op = "set"
    /\ "onEntryEvicted" \in DOMAIN last.arg.entryOptions
    /\ Len(events) = 2
    /\ events[1].type = "mru"
    /\ events[1].fn = EntryOnEntryMarkedAsMostRecentlyUsed
    /\ events[1].key = last.arg.key
    /\ events[2].type = "evicted"
    /\ events[2].fn = CacheOnEntryEvicted
    /\ events[2].key # last.arg.key

\* The entry a call makes head: the one of a set that returns, of a get that
\* returns a value, of a find that returns an entry; none for any other call.
C22_Promoted(op) ==
    IF op.op = "set" /\ ~op.threw
    THEN <<[key |-> op.arg.key, value |-> op.arg.value]>>
    ELSE IF op.op = "get" /\ op.ret # NULL
    THEN <<[key |-> op.arg, value |-> op.ret]>>
    ELSE IF op.op = "find" /\ op.ret # NullEntry
    THEN <<op.ret>>
    ELSE << >>

\* C22: the most-recently-used callback is invoked exactly once, with the
\* key and value of the entry made head, by each set that returns, each get
\* that returns a value and each find that returns an entry (also when the
\* entry was head already), and by no other call.
C22_MostRecentlyUsedOncePerPromotion ==
    [][now' = now =>
          /\ Len(Promotions') = Len(C22_Promoted(last'))
          /\ \A i \in DOMAIN Promotions' :
                 /\ Promotions'[i].key = C22_Promoted(last')[i].key
                 /\ Promotions'[i].value = C22_Promoted(last')[i].value
                 /\ Promotions'[i].fn =
                        nodes'[lookupTable'[Promotions'[i].key]].onEntryMarkedAsMostRecentlyUsed]_vars

\* A get has returned the value of the entry that was head already, of two,
\* and the callback was invoked for it.
C22_Witness ==
    /\ last.op = "get"
    /\ last.ret # NULL
    /\ size(This) = 2
    /\ nodes[head].created > nodes[tail].created
    /\ Len(Promotions) = 1
    /\ Promotions[1].key = last.arg

\* C23: after every operation that leaves another entry at the head of the
\* list than before, the most-recently-used callback of the new head entry
\* has been invoked during the operation.
C23_NewHeadIsReported ==
    [][(now' = now /\ head' # NULL
          /\ (head = NULL \/ nodes'[head'].key # nodes[head].key
                 \/ (last'.op = "set" /\ ~last'.threw))) =>
          \E i \in DOMAIN Promotions' :
              /\ Promotions'[i].key = nodes'[head'].key
              /\ Promotions'[i].value = nodes'[head'].value
              /\ Promotions'[i].fn = nodes'[head'].onEntryMarkedAsMostRecentlyUsed]_vars

\* The positions of the list whose entry is not expired and satisfies the
\* condition, and the invocations of the condition made by the last call.
C24_Matches(condition) ==
    {i \in DOMAIN List : /\ ~Expired(nodes[List[i]], now)
                         /\ Holds(condition, mapNodeToEntry(nodes[List[i]]))}

ConditionCalls == SelectSeq(events, LAMBDA e : e.type = "condition")

\* The elements of a sequence.
Range(seq) == {seq[i] : i \in DOMAIN seq}

\* The entries of the nodes of a sequence, and the nodes of it that are
\* expired.
EntriesOf(seq) == [i \in DOMAIN seq |-> mapNodeToEntry(nodes[seq[i]])]

ExpiredOf(seq) == SelectSeq(seq, LAMBDA id : Expired(nodes[id], now))

LiveOf(seq) == SelectSeq(seq, LAMBDA id : ~Expired(nodes[id], now))

\* C24: find(p) returns the first entry in list order that is not expired
\* and satisfies p, and makes it head; the expired entries before it are
\* removed, each with its eviction callback (isExpired = true), the entries
\* after it stay as they were, expired or not; p is applied to the entries
\* that are not expired up to the one returned, and to no expired entry.
\* When no entry that is not expired satisfies p, find returns null and the
\* entries that are not expired stay in their order.
C24_FindFirstLiveMatch ==
    [][Ran("find") =>
          LET M == C24_Matches(last'.arg) IN
          IF M # {}
          THEN LET m == CHOOSE i \in M : \A j \in M : i <= j
                   before == SubSeq(List, 1, m - 1)
                   after == SubSeq(List, m + 1, Len(List))
               IN  /\ last'.ret = mapNodeToEntry(nodes[List[m]])
                   /\ Entries' = <<last'.ret>> \o EntriesOf(LiveOf(before))
                                     \o EntriesOf(after)
                   /\ Len(Evictions') = Len(ExpiredOf(before))
                   /\ \A i \in DOMAIN Evictions' :
                          /\ Evictions'[i].key = nodes[ExpiredOf(before)[i]].key
                          /\ Evictions'[i].value = nodes[ExpiredOf(before)[i]].value
                          /\ Evictions'[i].isExpired
                   /\ [i \in DOMAIN ConditionCalls' |->
                           [key |-> ConditionCalls'[i].key, value |-> ConditionCalls'[i].value]]
                          = EntriesOf(LiveOf(before)) \o <<last'.ret>>
                   /\ \A i \in DOMAIN ConditionCalls' : ~ConditionCalls'[i].isExpired
          ELSE /\ last'.ret = NullEntry
               /\ Entries' = EntriesOf(LiveOf(List))
               /\ Promotions' = << >>
               /\ \A i \in DOMAIN ConditionCalls' : ~ConditionCalls'[i].isExpired]_vars

\* A find has returned an entry that stood behind an expired one, which it
\* removed, and in front of another expired one, which is still there.
C24_Witness ==
    /\ last.op = "find"
    /\ last.ret # NullEntry
    /\ Len(Evictions) = 1
    /\ Evictions[1].isExpired
    /\ size(This) = 2
    /\ Expired(nodes[tail], now)

\* The eviction callbacks invoked are those of the expired nodes of the list,
\* in list order, each with isExpired = true.
ExpiredPruned ==
    /\ Len(Evictions') = Len(ExpiredOf(List))
    /\ \A i \in DOMAIN Evictions' :
           /\ Evictions'[i].fn = nodes[ExpiredOf(List)[i]].onEntryEvicted
           /\ Evictions'[i].key = nodes[ExpiredOf(List)[i]].key
           /\ Evictions'[i].value = nodes[ExpiredOf(List)[i]].value
           /\ Evictions'[i].isExpired

\* C25: forEach invokes its callback once for each entry that is not
\* expired, in list order, with the indexes 0, 1, ..., n-1 (expired entries
\* are not counted); afterwards the cache holds those n entries in the same
\* order, the expired ones are removed, and no most-recently-used callback
\* was invoked.
C25_ForEachVisitsLiveEntries ==
    [][Ran("forEach") =>
          /\ last'.ret = [i \in DOMAIN LiveOf(List) |->
                             <<nodes[LiveOf(List)[i]].value,
                               nodes[LiveOf(List)[i]].key, i - 1>>]
          /\ Entries' = EntriesOf(LiveOf(List))
          /\ DOMAIN lookupTable' = {nodes[id].key : id \in Range(LiveOf(List))}
          /\ ExpiredPruned
          /\ Promotions' = << >>]_vars

\* A forEach has visited two entries and removed an expired one.
C25_Witness ==
    /\ last.op = "forEach"
    /\ Len(last.ret) = 2
    /\ last.ret[2][3] = 1
    /\ Len(Evictions) = 1
    /\ nodes[head].entryExpirationTimeInMS = NULL
    /\ nodes[tail].entryExpirationTimeInMS = NULL

\* C26: keys(), values(), entries() and the default iterator, pulled until
\* done with no other call and no clock advance in between, yield every
\* entry that is not expired exactly once, in list order, and no expired one;
\* afterwards the cache holds the entries yielded, in the same order, and
\* every expired entry is removed with its eviction callback
\* (isExpired = true).
C26_TraversalYieldsLiveEntries ==
    [][(now' = now /\ last'.op \in Generators) =>
          /\ last'.ret = [i \in DOMAIN LiveOf(List) |->
                             Yield(last'.op, nodes[LiveOf(List)[i]])]
          /\ Entries' = EntriesOf(LiveOf(List))
          /\ DOMAIN lookupTable' = {nodes[id].key : id \in Range(LiveOf(List))}
          /\ ExpiredPruned
          /\ Promotions' = << >>]_vars

\* entries() has yielded the two entries that remain, head first, and has
\* removed an expired one.
C26_Witness ==
    /\ last.op = "entries"
    /\ Len(last.ret) = 2
    /\ last.ret[1].key = nodes[head].key
    /\ last.ret[2].key = nodes[tail].key
    /\ Len(Evictions) = 1
    /\ Evictions[1].isExpired
    /\ nodes[tail].entryExpirationTimeInMS = NULL

\* C29: the list is doubly consistent: for every node e of the list e.next
\* is null or e.next.prev is e, and e.prev is null or e.prev.next is e;
\* head.prev and tail.next are null; tail is the last node met from head;
\* head is null exactly when tail is null, exactly when size is 0.
C29_ListDoublyConsistent ==
    /\ \A i \in DOMAIN List :
           LET e == nodes[List[i]] IN
           /\ e.next = NULL \/ nodes[e.next].prev = List[i]
           /\ e.prev = NULL \/ nodes[e.prev].next = List[i]
           /\ e.prev = IF i = 1 THEN NULL ELSE List[i - 1]
    /\ head # NULL => nodes[head].prev = NULL
    /\ tail # NULL => nodes[tail].next = NULL
    /\ tail = IF List = << >> THEN NULL ELSE List[Len(List)]
    /\ (head = NULL) = (tail = NULL)
    /\ (head = NULL) = (size(This) = 0)

\* A delete has removed one entry of three, and the entry that is now tail
\* was created after the one that is now head.
C29_Witness ==
    /\ last.op = "delete"
    /\ last.ret = TRUE
    /\ size(This) = 2
    /\ nodes[tail].created > nodes[head].created

\* C30: peek(k) of an entry that is in the cache and not expired returns its
\* value and changes nothing: the nodes, the index, head, tail and maxSize
\* are as before and no callback is invoked; peek(k) of a key that is not in
\* the cache returns null and changes nothing either.
C30_PeekOfLiveEntryChangesNothing ==
    [][Ran("peek") =>
          LET k == last'.arg IN
          IF k \notin DOMAIN lookupTable
          THEN /\ last'.ret = NULL
               /\ UNCHANGED <<nodes, lookupTable, head, tail, maxSizeInternal>>
               /\ events' = << >>
          ELSE ~Expired(nodes[lookupTable[k]], now) =>
                   /\ last'.ret = nodes[lookupTable[k]].value
                   /\ UNCHANGED <<nodes, lookupTable, head, tail, maxSizeInternal>>
                   /\ Entries' = Entries
                   /\ events' = << >>]_vars

\* A peek has returned the value of the tail entry of three, which is still
\* the tail.
C30_Witness ==
    /\ last.op = "peek"
    /\ last.ret # NULL
    /\ size(This) = 3
    /\ nodes[tail].key = last.arg

\* The invocations of clone functions made by the last call.
Clones == SelectSeq(events, LAMBDA e : e.type = "clone")

\* The invocations of clone functions that handing out, or storing, the
\* value of a node makes: one of the function the options of its set gave
\* (the one of the cache when they gave none), none when they said
\* clone: false.
C27_Cloned(entryOptions, key, value) ==
    IF C21_Bound(entryOptions, "clone", clone)
    THEN <<[type |-> "clone", fn |-> C21_Bound(entryOptions, "cloneFn", cloneFn),
            key |-> key, value |-> value, isExpired |-> FALSE]>>
    ELSE << >>

C28_TraversalsIndependent ==
    iterators # << >> =>
        /\ iterators[1].yielded = alone.it.yielded
        /\ (iterators[1].pc = "done") = (alone.it.pc = "done")

\* C31: as long as the entry of a key is not replaced by a set of that key,
\* its creation time and its duration stay what they are, whatever is called
\* and however the clock moves, and once its age exceeds its duration it
\* stays so; a get or peek that returns a value, and a find that returns an
\* entry, does so at a time that is not later than the creation time plus
\* the duration of that entry.
C31_AccessNeverExtendsLifetime ==
    [][\A k \in DOMAIN lookupTable :
          LET n == nodes[lookupTable[k]] IN
          /\ (k \in DOMAIN lookupTable' /\ ~(Ran("set") /\ last'.arg.key = k)) =>
                 LET m == nodes'[lookupTable'[k]] IN
                 /\ m.created = n.created
                 /\ m.entryExpirationTimeInMS = n.entryExpirationTimeInMS
                 /\ Expired(n, now) => Expired(m, now')
          /\ ((Ran("get") \/ Ran("peek")) /\ last'.arg = k /\ last'.ret # NULL) =>
                 (n.entryExpirationTimeInMS = NULL
                      \/ now <= n.created + n.entryExpirationTimeInMS)
          /\ (Ran("find") /\ last'.ret # NullEntry /\ last'.ret.key = k) =>
                 (n.entryExpirationTimeInMS = NULL
                      \/ now <= n.created + n.entryExpirationTimeInMS)]_vars

\* An entry of duration 1 created at time 0 was returned by get at time 1,
\* the last moment of its life; at time 2 it is expired all the same, and
\* still in the cache.
C31_Witness ==
    /\ last.op = "get"
    /\ last.ret # NULL
    /\ last.at = 1
    /\ now = 2
    /\ last.arg \in DOMAIN lookupTable
    /\ nodes[lookupTable[last.arg]].created = 0
    /\ nodes[lookupTable[last.arg]].entryExpirationTimeInMS = 1
    /\ Expired(nodes[lookupTable[last.arg]], now)

\* The position of key k in a sequence of keys (0 when it is not there).
IndexOf(seq, k) ==
    IF \E i \in DOMAIN seq : seq[i] = k
    THEN CHOOSE i \in DOMAIN seq : seq[i] = k
    ELSE 0

\* The entry of key k, expired, is in the cache before the step and is not
\* there after it.
C32_ExpiredLeaves(k) ==
    /\ k \in DOMAIN lookupTable
    /\ Expired(nodes[lookupTable[k]], now)
    /\ \/ k \notin DOMAIN lookupTable'
       \/ nodes'[lookupTable'[k]].created # nodes[lookupTable[k]].created
       \/ Ran("set") /\ last'.arg.key = k

\* C32: when the clock advances, size, remainingSize, has of every key,
\* newest and oldest answer what they answered before and no callback is
\* invoked; and an expired entry leaves the cache only in a get, peek or
\* delete of its key, in a set of its key, in a set of a new key into a full
\* cache of which it is the tail, in a maxSize setter given less than size,
\* in a clear, in a forEach or a traversal, and in a find that returns null
\* or an entry that stands behind it in the list.
C32_ExpiryIsNeverProactive ==
    [][/\ now' # now =>
              /\ size(This)' = size(This)
              /\ remainingSize(This)' = remainingSize(This)
              /\ \A k \in Keys : has(This, k).ret' = has(This, k).ret
              /\ newest(This).ret' = newest(This).ret
              /\ oldest(This).ret' = oldest(This).ret
              /\ events' = events
              /\ Entries' = Entries
       /\ \A k \in Keys : C32_ExpiredLeaves(k) =>
              \/ (Ran("get") \/ Ran("peek") \/ Ran("delete")) /\ last'.arg = k
              \/ Ran("set") /\ last'.arg.key = k
              \/ /\ Ran("set")
                 /\ last'.arg.key \notin DOMAIN lookupTable
                 /\ size(This) = maxSizeInternal
                 /\ nodes[tail].key = k
              \/ Ran("setMaxSize") /\ last'.arg < size(This)
              \/ Ran("clear")
              \/ Ran("forEach")
              \/ \E generator \in Generators : Ran(generator)
              \/ /\ Ran("find")
                 /\ \/ last'.ret = NullEntry
                    \/ IndexOf(Order, k) < IndexOf(Order, last'.ret.key)]_vars

\* The clock has advanced after the last call, and the cache holds two
\* entries whose age exceeds their duration, in front of one that never
\* expires.
C32_Witness ==
    /\ now > last.at
    /\ size(This) = 3
    /\ Expired(nodes[List[1]], now)
    /\ Expired(nodes[List[2]], now)
    /\ ~Expired(nodes[List[3]], now)
    /\ has(This, nodes[head].key).ret

\* C33: a set(k, v) that returns, of a key k in the cache, expired or not,
\* leaves one node of key k: it holds v, its creation time is the time of
\* this set, its duration is the one of the options of this set (the default
\* of the cache when they give none), and it is not expired; a get(k) made
\* right after the set returns v.
C33_OverwriteRestartsExpiry ==
    /\ [](C14_Overwritten /\ Evictions[1].isExpired =>
              get(This, last.arg.key).ret = last.arg.value)
    /\ [][(Ran("set") /\ ~last'.threw /\ last'.arg.key \in DOMAIN lookupTable) =>
            LET n == nodes'[lookupTable'[last'.arg.key]] IN
            /\ n.value = last'.arg.value
            /\ n.created = now
            /\ n.entryExpirationTimeInMS =
                   C21_Bound(last'.arg.entryOptions, "entryExpirationTimeInMS",
                             entryExpirationTimeInMS)
            /\ ~Expired(n, now)
            /\ Cardinality({i \in DOMAIN nodes' :
                               nodes'[i].key = last'.arg.key}) = 1]_vars

\* At time 2 a set has replaced an entry created at time 0 that was
\* expired; the new entry was created at time 2 with the default duration
\* of the cache.
C33_Witness ==
    /\ C14_Overwritten
    /\ Evictions[1].isExpired
    /\ now = 2
    /\ nodes[head].created = 2
    /\ nodes[head].entryExpirationTimeInMS = 1
    /\ last.arg.entryOptions = NoOptions

\* C34: a find that returns null leaves no entry that was expired when it
\* was called: every expired entry of the list, wherever it stood, was
\* removed from the list and the index, each with its eviction callback
\* (isExpired = true), in list order; the entries that were not expired are
\* the list afterwards, in the order they had, and none was made head.
C34_FindNullPrunesEveryExpired ==
    [][(Ran("find") /\ last'.ret = NullEntry) =>
          /\ ExpiredPruned
          /\ Entries' = EntriesOf(LiveOf(List))
          /\ DOMAIN lookupTable' = {nodes[id].key : id \in Range(LiveOf(List))}
          /\ \A k \in DOMAIN lookupTable' : ~Expired(nodes'[lookupTable'[k]], now)
          /\ Promotions' = << >>]_vars

\* A find has returned null after removing two expired entries, which stood
\* one after the other at the end of the list, behind the entry that is left
\* (created after them, never made head since).
C34_Witness ==
    /\ last.op = "find"
    /\ last.ret = NullEntry
    /\ last.at = now
    /\ Len(Evictions) = 2
    /\ size(This) = 1
    /\ nodes[head].created = 2

\* The invocation of callback type `type` for the entry {key, value}.
C35_Invoked(e, type, key, value) ==
    e.type = type /\ e.key = key /\ e.value = value

\* C35: the callbacks a set that returns invokes are, for a key in the
\* cache, the eviction callback of the old entry and then the
\* most-recently-used callback of the new one; for a new key in a full
\* cache, the most-recently-used callback of the new entry and then the
\* eviction callback of the tail entry; for a new key in a cache that is not
\* full, the most-recently-used callback of the new entry alone.  The
\* eviction callbacks of a maxSize setter are those of the entries beyond
\* the new maxSize, from the tail towards the head.
C35_CallbackOrderWithinOneCall ==
    [][/\ (Ran("set") /\ ~last'.threw) =>
              \A k \in Keys : k = last'.arg.key =>
                  LET v == last'.arg.value IN
                  IF k \in DOMAIN lookupTable
                  THEN /\ Len(events') = 2
                       /\ C35_Invoked(events'[1], "evicted", k,
                                      nodes[lookupTable[k]].value)
                       /\ C35_Invoked(events'[2], "mru", k, v)
                  ELSE IF size(This) = maxSizeInternal
                  THEN /\ Len(events') = 2
                       /\ C35_Invoked(events'[1], "mru", k, v)
                       /\ C35_Invoked(events'[2], "evicted", nodes[tail].key,
                                      nodes[tail].value)
                  ELSE /\ Len(events') = 1
                       /\ C35_Invoked(events'[1], "mru", k, v)
       /\ (Ran("setMaxSize") /\ ~last'.threw) =>
              /\ Len(events') = Len(List) - Len(List')
              /\ \A i \in DOMAIN events' :
                     C35_Invoked(events'[i], "evicted",
                                 nodes[List[Len(List) - i + 1]].key,
                                 nodes[List[Len(List) - i + 1]].value)]_vars

\* A set of a new key into a full cache of two entries has invoked the
\* most-recently-used callback of the new entry and then the eviction
\* callback of another key.
C35_Witness ==
    /\ last.op = "set"
    /\ ~last.threw
    /\ size(This) = 2
    /\ maxSizeInternal = 2
    /\ Len(events) = 2
    /\ C35_Invoked(events[1], "mru", last.arg.key, last.arg.value)
    /\ events[2].type = "evicted"
    /\ events[2].key # last.arg.key

\* C36: at every invocation of an eviction callback or of a
\* most-recently-used callback, the keys of the index are the keys reached
\* from head and size is within maxSize.
C36_CallbacksObserveCoherentCache ==
    \A i \in DOMAIN seen : seen[i].coherent /\ seen[i].within

\* C37: size counts every entry of the list, expired or not; a set that
\* returns, of a new key into a cache with size = maxSize, removes the tail
\* entry, whether it is expired or not, and no other entry, whether others
\* are expired or not: its eviction callback is the only one invoked, and it
\* is told whether the tail entry was expired.
C37_CapacityEvictionIgnoresExpiry ==
    /\ [](size(This) = Len(List))
    /\ [][(Ran("set") /\ ~last'.threw /\ last'.arg.key \notin DOMAIN lookupTable
              /\ size(This) = maxSizeInternal) =>
            /\ DOMAIN lookupTable' =
                   (DOMAIN lookupTable \ {nodes[tail].key}) \cup {last'.arg.key}
            /\ \A k \in DOMAIN lookupTable \ {nodes[tail].key} :
                   nodes'[lookupTable'[k]].created = nodes[lookupTable[k]].created
            /\ Len(Evictions') = 1
            /\ Evictions'[1].key = nodes[tail].key
            /\ Evictions'[1].isExpired = Expired(nodes[tail], now)]_vars

\* A set of a new key into a full cache of two entries has evicted the tail
\* entry, which was not expired, and left the other entry, which is expired.
C37_Witness ==
    /\ last.op = "set"
    /\ ~last.threw
    /\ last.at = now
    /\ maxSizeInternal = 2
    /\ size(This) = 2
    /\ Len(Evictions) = 1
    /\ ~Evictions[1].isExpired
    /\ Expired(nodes[tail], now)

\* C38: every loop over the cache that has started is left: a for ... of
\* over keys(), values(), entries() or the default iterator whose body
\* calls get or set with keys of the cache, and a forEach whose callback
\* does so, reaches the end of the list.
C38_EveryTraversalTerminates ==
    (iterators # << >>) ~> (iterators = << >>)

\* C39: a generator of keys(), values() or entries() whose caller deletes,
\* between two calls of next(), the key just yielded, has yielded when it
\* ends what the same traversal yields without the deletions, which has
\* ended too: every entry that is not expired and stood behind a deleted
\* one was yielded.
C39_RemovalKeepsTheRest ==
    (iterators # << >> /\ iterators[1].pc = "done") =>
        /\ alone.it.pc = "done"
        /\ alone.it.yielded = iterators[1].yielded

\* C40: the expiry threshold is strict.  An entry with duration D is expired
\* exactly when now - created > D, so that an entry without a duration (null)
\* is never expired whatever the clock says; and get of a key of the cache
\* returns its value when the age of the entry is at most D, at age = D
\* included, and null only when the age exceeds D.
C40_ExpiryThresholdIsStrict ==
    /\ [](\A k \in DOMAIN lookupTable :
            LET n == nodes[lookupTable[k]] IN
            /\ isExpired(n) <=>
                   /\ n.entryExpirationTimeInMS # NULL
                   /\ now - n.created > n.entryExpirationTimeInMS
            /\ n.entryExpirationTimeInMS = NULL => ~isExpired(n))
    /\ [][\A k \in DOMAIN lookupTable :
            (Ran("get") /\ last'.arg = k) =>
                LET n == nodes[lookupTable[k]] IN
                last'.ret = IF /\ n.entryExpirationTimeInMS # NULL
                               /\ now - n.created > n.entryExpirationTimeInMS
                            THEN NULL
                            ELSE n.value]_vars

\* get has just returned the value of an entry whose age is exactly its
\* duration, beside an entry without a duration that is as old.
C40_Witness ==
    /\ last.op = "get"
    /\ last.at = now
    /\ last.ret # NULL
    /\ last.arg \in DOMAIN lookupTable
    /\ nodes[lookupTable[last.arg]].entryExpirationTimeInMS = 1
    /\ now - nodes[lookupTable[last.arg]].created = 1
    /\ \E k \in DOMAIN lookupTable :
           /\ nodes[lookupTable[k]].entryExpirationTimeInMS = NULL
           /\ now - nodes[lookupTable[k]].created >= 1

=============================================================================
